---- MODULE Spec2Model ----
(***************************************************************************)
(* Number guessing game (React front end): the round state machine of the  *)
(* App component, its scoring, the leaderboard log, the lifetime counter,  *)
(* the achievements and the level progression.                             *)
(*                                                                         *)
(* React state is modelled by one variable per useState cell, refs by one  *)
(* variable per ref.  Every event handler is one action; the passive       *)
(* effects that React runs after the handler's render (the [status] and    *)
(* [timerChallenge] effects) are part of the action.  handleSubmit is an   *)
(* async function: what follows its `await playSuccessSound()` runs in a   *)
(* later task once the play() promise settles, so it is a second action    *)
(* (SoundSettled) working on the values captured by the closure.           *)
(*                                                                         *)
(* A displayed text is the key of its translation with the arguments it   *)
(* interpolates.  The text box content `input` is set by onChange to any  *)
(* string before any handler runs and is therefore an input of the        *)
(* handlers that read it.                                                  *)
(***************************************************************************)
EXTENDS Integers, Sequences, FiniteSets, TLC

VARIABLES
    difficulty,      \* useState 'difficulty'
    range,           \* useState 'range' {min, max}
    secret,          \* useState 'secret'
    status,          \* useState 'status'
    attempts,        \* useState 'attempts'
    score,           \* useState 'score'
    hintTypesUsed,   \* useState 'hintTypesUsed' (the set of types whose flag is true)
    history,         \* useState 'history'
    feedback,        \* useState 'feedback' (message key and arguments)
    repeatWarning,   \* useState 'repeatWarning'
    lastHint,        \* useState 'lastHint'
    timerChallenge,  \* useState 'timerChallenge'
    timeLeft,        \* useState 'timeLeft'
    totalTime,       \* useState 'totalTime'
    level,           \* useState 'level'
    unlockedLevels,  \* useState 'unlockedLevels'
    achievements,    \* useState 'achievements'
    timerRef,        \* timerRef.current holds an interval id
    intervals,       \* number of setInterval tasks that are scheduled
    pending,         \* handleSubmit calls suspended at `await playSuccessSound()`
    leaderboard,     \* localStorage ngg_leaderboard_v2
    totalGames,      \* localStorage ngg_stats_v1 .totalGames
    storedAchievements, \* localStorage achievements record
    storedLevels,    \* localStorage ngg_levels_progress_v1 .unlocked
    now,             \* Date.now(), a logical clock
    round,           \* number of rounds started so far (exploration counter)
    plan             \* what the player does in this session (exploration bound)

vars == <<difficulty, range, secret, status, attempts, score, hintTypesUsed,
          history, feedback, repeatWarning, lastHint, timerChallenge, timeLeft, totalTime, level, unlockedLevels,
          achievements, timerRef, intervals, pending, leaderboard, totalGames,
          storedAchievements, storedLevels, now, round, plan>>

----------------------------------------------------------------------------
(* Program constants *)

DifficultyNames == {"easy", "medium", "hard"}

DIFFICULTIES ==
    [d \in DifficultyNames |->
        CASE d = "easy"   -> [min |-> 1, max |-> 20]
          [] d = "medium" -> [min |-> 1, max |-> 50]
          [] d = "hard"   -> [min |-> 1, max |-> 100]]

HINT_PENALTY == 100

TIMER_CHALLENGE_DEFAULTS ==
    [d \in DifficultyNames |->
        CASE d = "easy" -> 30 [] d = "medium" -> 45 [] d = "hard" -> 60]

MAX_FINAL_SCORE == 5000

\* MAX_ATTEMPTS with the limits of easy and medium exchanged
MAX_ATTEMPTS_swapped == [easy |-> 8, medium |-> 6, hard |-> 10]

MAX_ATTEMPTS ==
    [d \in DifficultyNames |->
        CASE d = "easy" -> 6 [] d = "medium" -> 8 [] d = "hard" -> 10]

HINT_TYPES == {"parity", "range", "digit", "proximity"}

LEVEL_ORDER == <<"Beginner", "Intermediate", "Expert">>

LEVELS == {LEVEL_ORDER[i] : i \in 1..Len(LEVEL_ORDER)}

\* the presets with medium and hard exchanged
LEVEL_PRESET_DIFFICULTY_swapped ==
    [l \in LEVELS |->
        CASE l = "Beginner" -> "easy"
          [] l = "Intermediate" -> "hard"
          [] l = "Expert" -> "medium"]

LEVEL_PRESET_DIFFICULTY ==
    [l \in LEVELS |->
        CASE l = "Beginner" -> "easy"
          [] l = "Intermediate" -> "medium"
          [] l = "Expert" -> "hard"]

LeaderboardCap == 50

TerminalStatuses == {"won", "timeout", "out_of_attempts"}

NoTime == 0   \* an unlockedAt key that is absent

DEFAULT_ACHIEVEMENTS ==
    [firstTryWin |-> FALSE, noHintsWin |-> FALSE,
     unlockedAt |-> [firstTryWin |-> NoTime, noHintsWin |-> NoTime]]

----------------------------------------------------------------------------
(* Numbers and strings.  A typed text is a sequence of one-character       *)
(* strings over the alphabet blank, sign, digits, dot and two letters.     *)

Digit == {"0", "1", "2", "3", "4", "5", "6", "7", "8", "9"}

DigitVal(c) ==
    CASE c = "0" -> 0 [] c = "1" -> 1 [] c = "2" -> 2 [] c = "3" -> 3
      [] c = "4" -> 4 [] c = "5" -> 5 [] c = "6" -> 6 [] c = "7" -> 7
      [] c = "8" -> 8 [] c = "9" -> 9

DigitChar(n) ==
    CASE n = 0 -> "0" [] n = 1 -> "1" [] n = 2 -> "2" [] n = 3 -> "3"
      [] n = 4 -> "4" [] n = 5 -> "5" [] n = 6 -> "6" [] n = 7 -> "7"
      [] n = 8 -> "8" [] n = 9 -> "9"

\* String(n) for an integer n
RECURSIVE NatString(_)
NatString(n) == IF n < 10 THEN <<DigitChar(n)>>
                ELSE NatString(n \div 10) \o <<DigitChar(n % 10)>>

String(n) == IF n < 0 THEN <<"-">> \o NatString(-n) ELSE NatString(n)

\* value.trim()
RECURSIVE TrimLeft(_)
TrimLeft(s) == IF s # <<>> /\ Head(s) = " " THEN TrimLeft(Tail(s)) ELSE s

RECURSIVE TrimRight(_)
TrimRight(s) == IF s # <<>> /\ s[Len(s)] = " "
                THEN TrimRight(SubSeq(s, 1, Len(s) - 1)) ELSE s

Trim(s) == TrimRight(TrimLeft(s))

AllDigits(s) == \A i \in 1..Len(s) : s[i] \in Digit

RECURSIVE DigitsValue(_)
DigitsValue(s) == IF s = <<>> THEN 0
                  ELSE 10 * DigitsValue(SubSeq(s, 1, Len(s) - 1)) + DigitVal(s[Len(s)])

\* Number(value) on the alphabet above: StringNumericLiteral with optional
\* sign, digits and at most one dot.  The result says whether it is NaN,
\* whether it is an integer, and its integer part.
NumberOfParts(negative, whole, frac, dotCount) ==
    IF dotCount > 1 \/ ~AllDigits(whole) \/ ~AllDigits(frac)
       \/ Len(whole) + Len(frac) = 0
    THEN [nan |-> TRUE, integer |-> FALSE, val |-> 0]
    ELSE [nan |-> FALSE,
          integer |-> \A i \in 1..Len(frac) : frac[i] = "0",
          val |-> IF negative THEN -DigitsValue(whole) ELSE DigitsValue(whole)]

DotsOf(body) == {i \in 1..Len(body) : body[i] = "."}

FirstDot(body) ==
    IF DotsOf(body) = {} THEN Len(body) + 1
    ELSE CHOOSE i \in DotsOf(body) : \A j \in DotsOf(body) : i <= j

NumberOfBody(negative, body, dot) ==
    NumberOfParts(negative, SubSeq(body, 1, dot - 1),
                  SubSeq(body, dot + 1, Len(body)), Cardinality(DotsOf(body)))

NumberOfTrimmed(t) ==
    IF t = <<>> THEN [nan |-> FALSE, integer |-> TRUE, val |-> 0]
    ELSE IF t[1] \in {"-", "+"}
    THEN NumberOfBody(t[1] = "-", Tail(t), FirstDot(Tail(t)))
    ELSE NumberOfBody(FALSE, t, FirstDot(t))

Number(value) == NumberOfTrimmed(Trim(value))

\* Math.round(p / q) for q > 0: the nearest integer, halves towards +infinity
RoundDiv(p, q) == (2 * p + q) \div (2 * q)

Max2(a, b) == IF a >= b THEN a ELSE b
Min2(a, b) == IF a <= b THEN a ELSE b

clamp(n, lo, hi) == Max2(lo, Min2(hi, n))

----------------------------------------------------------------------------
(* Scoring *)

\* computeScore without the floor at zero
computeScore_noFloor(attemptCount, rangeMax) ==
    RoundDiv(1000 * (Max2(1, rangeMax) - attemptCount + 1), Max2(1, rangeMax))

computeScore(attemptCount, rangeMax) ==
    LET maxVal == Max2(1, rangeMax)
        raw == RoundDiv(1000 * (maxVal - attemptCount + 1), maxVal)
    IN  Max2(0, raw)

\* one penalty however many hint types were used
hintCountOf_flag(used) == IF used = {} THEN 0 ELSE 1

hintCountOf(used) == Cardinality(used)

\* handleSubmit's score of a win: base score, hint penalty, time bonus
\* finalBase * (1 + (timeLeft / totalTime) * 0.5), clamped and rounded
\* the final base without the hint penalty
finalBaseOf_noPenalty(baseScore, hintCount) == Max2(0, baseScore)

finalBaseOf(baseScore, hintCount) ==
    Max2(0, baseScore - Min2(baseScore, hintCount * HINT_PENALTY))

\* the time bonus taken as the whole multiplier: (timeLeft / totalTime) * 0.5
timeBonusScore_bonusOnly(finalBase, tLeft, tTotal) ==
    RoundDiv(finalBase * Max2(0, tLeft), 2 * tTotal)

timeBonusScore(finalBase, tLeft, tTotal) ==
    IF finalBase * (2 * tTotal + Max2(0, tLeft)) >= MAX_FINAL_SCORE * 2 * tTotal
    THEN MAX_FINAL_SCORE
    ELSE RoundDiv(finalBase * (2 * tTotal + Max2(0, tLeft)), 2 * tTotal)

finalScoreOf(nextAttempts, rangeMax, hintCount, tc, tLeft, tTotal) ==
    IF tc /\ tTotal > 0
    THEN timeBonusScore(finalBaseOf(computeScore(nextAttempts, rangeMax), hintCount),
                        tLeft, tTotal)
    ELSE clamp(finalBaseOf(computeScore(nextAttempts, rangeMax), hintCount),
               0, MAX_FINAL_SCORE)

----------------------------------------------------------------------------
(* Guess validation and history *)

\* t(key, {a, b, c}): a translated text
Msg(key, a, b, c) == [key |-> key, a |-> a, b |-> b, c |-> c]

NoMsg == Msg("", 0, 0, 0)

\* validateNumber without the range check
validateNumber_noRange(num, rng) ==
    IF num.nan \/ ~num.integer
    THEN [ok |-> FALSE, message |-> Msg("submitGuessTitle", 0, 0, 0), value |-> 0]
    ELSE [ok |-> TRUE, message |-> NoMsg, value |-> num.val]

validateNumber(num, rng) ==
    IF num.nan
    THEN [ok |-> FALSE, message |-> Msg("submitGuessTitle", 0, 0, 0), value |-> 0]
    ELSE IF ~num.integer
    THEN [ok |-> FALSE, message |-> Msg("submitGuessTitle", 0, 0, 0), value |-> 0]
    ELSE IF num.val < rng.min \/ num.val > rng.max
    THEN [ok |-> FALSE,
          message |-> Msg("guessPlaceholder", rng.min, rng.max, 0), value |-> 0]
    ELSE [ok |-> TRUE, message |-> NoMsg, value |-> num.val]

validateInput(value, rng) ==
    IF Trim(value) = <<>>
    THEN [ok |-> FALSE, message |-> Msg("guessLabel", 0, 0, 0), value |-> 0]
    ELSE validateNumber(Number(value), rng)

\* isRepeatGuess that finds nothing
isRepeatGuess_never(num, hist) == FALSE

isRepeatGuess(num, hist) == \E i \in 1..Len(hist) : hist[i].value = num

makeHistoryEntry(index, value, result) ==
    [index |-> index, value |-> value, result |-> result]

\* resultLabelOf with the two directions exchanged
resultLabelOf_reversed(guess, sec) ==
    IF guess = sec THEN "correct"
    ELSE IF guess < sec THEN "too high" ELSE "too low"

resultLabelOf(guess, sec) ==
    IF guess = sec THEN "correct"
    ELSE IF guess < sec THEN "too low" ELSE "too high"

----------------------------------------------------------------------------
(* The countdown: timerRef and the scheduled interval tasks, as a record   *)
(* [timeLeft, totalTime, timerRef, intervals] threaded through a handler.  *)

TimerNow == [timeLeft |-> timeLeft, totalTime |-> totalTime,
             timerRef |-> timerRef, intervals |-> intervals]

\* clearTimer that drops the id without calling clearInterval
clearTimer_forgets(T) == [T EXCEPT !.timerRef = FALSE]

clearTimer(T) ==
    IF T.timerRef
    THEN [T EXCEPT !.timerRef = FALSE, !.intervals = @ - 1]
    ELSE T

\* resetAndMaybeStartTimer that keeps the countdown of the previous round
resetAndMaybeStartTimer_keepsCountdown(T, nextDifficulty, tc, st) ==
    IF tc /\ st = "playing"
    THEN [clearTimer(T) EXCEPT !.timerRef = TRUE, !.intervals = @ + 1]
    ELSE clearTimer(T)

\* tc and st are timerChallenge and status as the calling closure sees them
resetAndMaybeStartTimer(T, nextDifficulty, tc, st) ==
    LET duration == TIMER_CHALLENGE_DEFAULTS[nextDifficulty]
        T1 == clearTimer([T EXCEPT !.totalTime = duration, !.timeLeft = duration])
    IN  IF tc /\ st = "playing"
        THEN [T1 EXCEPT !.timerRef = TRUE, !.intervals = @ + 1]
        ELSE T1

\* useEffect(..., [status]): runs after a render in which status changed
statusEffect(T, oldStatus, newStatus, tc, diff) ==
    IF newStatus = oldStatus THEN T
    ELSE IF newStatus # "playing" THEN clearTimer(T)
    ELSE IF tc THEN resetAndMaybeStartTimer(T, diff, tc, newStatus)
    ELSE T

\* useEffect(..., [timerChallenge]): cleanup of the previous run, then the body
timerChallengeEffect(T, oldTc, newTc, diff, st) ==
    IF newTc = oldTc THEN T
    ELSE IF newTc THEN resetAndMaybeStartTimer(clearTimer(T), diff, newTc, st)
    ELSE clearTimer(clearTimer(T))

----------------------------------------------------------------------------
(* Durable store: leaderboard, lifetime counter, achievements, levels *)

Take(s, n) == SubSeq(s, 1, Min2(n, Len(s)))

\* addResult without the cap
addResult_uncapped(log, entry) == <<entry>> \o log

addResult(log, entry) == Take(<<entry>> \o log, LeaderboardCap)

\* the comparator of a view without the second and third key
compareEntries_firstKeyOnly(view, a, b) ==
    IF view = "score" THEN b.score - a.score ELSE a.attempts - b.attempts

\* the comparators handed to list.sort: negative when a goes before b
compareEntries(view, a, b) ==
    IF view = "score"
    THEN IF b.score # a.score THEN b.score - a.score
         ELSE IF a.attempts # b.attempts THEN a.attempts - b.attempts
         ELSE a.timestamp - b.timestamp
    ELSE IF a.attempts # b.attempts THEN a.attempts - b.attempts
         ELSE IF b.score # a.score THEN b.score - a.score
         ELSE a.timestamp - b.timestamp

\* Array.prototype.sort is stable: an entry goes behind the entries it
\* compares equal to
RECURSIVE sortInsert(_, _, _)
sortInsert(view, e, sorted) ==
    IF sorted = <<>> THEN <<e>>
    ELSE IF compareEntries(view, e, Head(sorted)) < 0 THEN <<e>> \o sorted
    ELSE <<Head(sorted)>> \o sortInsert(view, e, Tail(sorted))

RECURSIVE sortEntries(_, _)
sortEntries(view, list) ==
    IF list = <<>> THEN <<>>
    ELSE sortInsert(view, list[Len(list)],
                    sortEntries(view, SubSeq(list, 1, Len(list) - 1)))

\* readResults().slice(), sorted, .slice(0, limit)
getHighScores(stored, limit) == Take(sortEntries("score", stored), limit)

getBestAttempts(stored, limit) == Take(sortEntries("attempts", stored), limit)

\* incrementTotalGames that writes the count back unchanged
incrementTotalGames_none(n) == n

incrementTotalGames(n) == n + 1

\* readStats: the stored count when it is a number >= 0, else 0
readStats(raw) == [totalGames |-> IF raw >= 0 THEN raw ELSE 0]

NoCounter == -1   \* fallbackTotalGames = null
NoSeconds == -1   \* fastestWinSeconds = null

\* totalGames that trusts the counter alone
statsTotalGames_counterOnly(entries, fallbackTotalGames) ==
    IF fallbackTotalGames # NoCounter THEN fallbackTotalGames ELSE Len(entries)

statsTotalGames(entries, fallbackTotalGames) ==
    IF fallbackTotalGames # NoCounter
    THEN Max2(fallbackTotalGames, Len(entries))
    ELSE Len(entries)

RECURSIVE statsHighestScore(_, _)
statsHighestScore(entries, highestScore) ==
    IF entries = <<>> THEN highestScore
    ELSE statsHighestScore(Tail(entries),
                           IF Head(entries).score > highestScore
                           THEN Head(entries).score ELSE highestScore)

\* the loop body of the fastest win that keeps the slower time
statsFaster_slowest(e, fastest) ==
    IF /\ e.timerChallenge /\ e.totalTime # -1 /\ e.timeRemaining # -1
       /\ e.totalTime - e.timeRemaining >= 0
    THEN Max2(fastest, e.totalTime - e.timeRemaining)
    ELSE fastest

\* the loop body of the fastest win (-1 in a field: not a number)
statsFaster(e, fastest) ==
    IF /\ e.timerChallenge /\ e.totalTime # -1 /\ e.timeRemaining # -1
       /\ e.totalTime - e.timeRemaining >= 0
    THEN IF fastest = NoSeconds THEN e.totalTime - e.timeRemaining
         ELSE Min2(fastest, e.totalTime - e.timeRemaining)
    ELSE fastest

RECURSIVE statsFastest(_, _)
statsFastest(entries, fastest) ==
    IF entries = <<>> THEN fastest
    ELSE statsFastest(Tail(entries), statsFaster(Head(entries), fastest))

RECURSIVE statsSumAttempts(_)
statsSumAttempts(entries) ==
    IF entries = <<>> THEN 0
    ELSE Head(entries).attempts + statsSumAttempts(Tail(entries))

\* averageAttempts is kept in tenths: Math.round(avg * 10) / 10
computeStatisticsFromLeaderboard(entries, fallbackTotalGames) ==
    [totalGames |-> statsTotalGames(entries, fallbackTotalGames),
     highestScore |-> IF entries = <<>> THEN 0 ELSE statsHighestScore(entries, 0),
     fastestWinSeconds |-> statsFastest(entries, NoSeconds),
     averageAttemptsTenths |->
         IF entries = <<>> THEN 0
         ELSE RoundDiv(10 * statsSumAttempts(entries), Len(entries))]

\* StatisticsModal.refresh on the stored counter and the stored log
refreshStatistics(rawCounter, entries) ==
    [computeStatisticsFromLeaderboard(entries, readStats(rawCounter).totalGames)
        EXCEPT !.totalGames =
            Max2(readStats(rawCounter).totalGames,
                 statsTotalGames(entries, readStats(rawCounter).totalGames))]

\* unlockOne that stamps the key whether or not it is unlocked already
unlockOne_restamp(ach, key, timestamp) ==
    [ach EXCEPT ![key] = TRUE, !.unlockedAt[key] = timestamp]

unlockOne(ach, key, timestamp) ==
    IF ach[key] THEN ach
    ELSE [ach EXCEPT ![key] = TRUE, !.unlockedAt[key] = timestamp]

\* keysToUnlock is a subset of the two keys; they are handled in the order
\* firstTryWin, noHintsWin, and the two updates are independent
unlockAchievements(current, keysToUnlock, timestamp) ==
    LET a1 == IF "firstTryWin" \in keysToUnlock
              THEN unlockOne(current, "firstTryWin", timestamp) ELSE current
        a2 == IF "noHintsWin" \in keysToUnlock
              THEN unlockOne(a1, "noHintsWin", timestamp) ELSE a1
    IN  [next |-> a2,
         newly |-> {k \in keysToUnlock : ~current[k]}]

toUnlockOf(nextAttempts, hintCount) ==
    (IF nextAttempts = 1 THEN {"firstTryWin"} ELSE {})
    \cup (IF hintCount = 0 THEN {"noHintsWin"} ELSE {})

indexOfLevel(l) == CHOOSE i \in 1..Len(LEVEL_ORDER) : LEVEL_ORDER[i] = l

\* getNextLevel that answers the last level of LEVEL_ORDER
getNextLevel_last(currentLevel) == LEVEL_ORDER[Len(LEVEL_ORDER)]

\* getNextLevel: the successor in LEVEL_ORDER, "" (null) for the last level
getNextLevel(currentLevel) ==
    IF currentLevel \notin LEVELS \/ indexOfLevel(currentLevel) >= Len(LEVEL_ORDER)
    THEN ""
    ELSE LEVEL_ORDER[indexOfLevel(currentLevel) + 1]

\* readLevelProgress on the content of the storage key: missing, not JSON,
\* JSON without an `unlocked` array, or JSON with the array raw.unlocked
readLevelProgress(raw) ==
    IF raw.kind # "list" THEN {"Beginner"}
    ELSE IF SelectSeq(raw.unlocked, LAMBDA l : l \in LEVELS) = <<>>
    THEN {"Beginner"}
    ELSE {raw.unlocked[i] : i \in {j \in 1..Len(raw.unlocked) :
                                      raw.unlocked[j] \in LEVELS}}

\* unlockNextLevelIfEligible, on the unlockedLevels the calling closure holds
unlockedAfterWin(currentLevel, closureUnlocked, memoryUnlocked) ==
    LET next == getNextLevel(currentLevel)
    IN  IF next = "" \/ next \in closureUnlocked THEN memoryUnlocked
        ELSE closureUnlocked \cup {next}

storedAfterWin(currentLevel, closureUnlocked, stored) ==
    LET next == getNextLevel(currentLevel)
    IN  IF next = "" \/ next \in closureUnlocked THEN stored
        ELSE (closureUnlocked \cup {next}) \cap LEVELS

----------------------------------------------------------------------------
(* Hint texts *)

parityHint(sec) == Msg("hint_parity_text", sec % 2, 0, 0)   \* 0 even, 1 odd

rangeTargetWidth(totalSpan) ==
    Min2(Max2(5, totalSpan \div 3), Max2(3, totalSpan - 2))

\* the window of targetWidth from start, left where it is
rangeShift_noShift(rng, targetWidth, start) ==
    [start |-> start, end |-> start + targetWidth - 1]

\* lines 660-665: the window of targetWidth from start, shifted back into the range
rangeShift(rng, targetWidth, start) ==
    IF start + targetWidth - 1 > rng.max
    THEN [start |-> Max2(rng.min, rng.max - targetWidth + 1), end |-> rng.max]
    ELSE [start |-> start, end |-> start + targetWidth - 1]

\* lines 666-669: never the whole range
rangeNarrow(rng, totalSpan, w) ==
    IF w.start = rng.min /\ w.end = rng.max /\ totalSpan > 5
    THEN [start |-> rng.min + 1, end |-> rng.max - 1]
    ELSE w

\* lines 670-671: the secret stays inside
rangeInclude(sec, w) ==
    [start |-> IF sec < w.start THEN sec ELSE w.start,
     end |-> IF sec > w.end THEN sec ELSE w.end]

rangeWindow(sec, rng, totalSpan, targetWidth) ==
    rangeInclude(sec,
        rangeNarrow(rng, totalSpan,
            rangeShift(rng, targetWidth, Max2(rng.min, sec - targetWidth \div 2))))

rangeHintText(w) == Msg("hint_range_text", w.start, w.end, 0)

rangeHint(sec, rng) ==
    rangeHintText(rangeWindow(sec, rng, rng.max - rng.min + 1,
                              rangeTargetWidth(rng.max - rng.min + 1)))

digitHint(sec) ==
    LET s == String(sec)
    IN  Msg(IF Len(s) = 1 THEN "hint_digit_text_single" ELSE "hint_digit_text_multi",
            DigitVal(s[1]), 0, 0)

Abs(n) == IF n < 0 THEN -n ELSE n

proximityByDelta(delta) ==
    IF delta = 0 THEN Msg("hint_proximity_already_correct", 0, 0, 0)
    ELSE IF delta <= 3 THEN Msg("hint_proximity_very_close", 0, 0, 0)
    ELSE IF delta <= 6 THEN Msg("hint_proximity_hot", 0, 0, 0)
    ELSE IF delta <= 12 THEN Msg("hint_proximity_warm", 0, 0, 0)
    ELSE Msg("hint_proximity_cold", 0, 0, 0)

proximityOfParsed(sec, parsed, rng) ==
    IF /\ ~parsed.nan /\ parsed.integer
       /\ parsed.val >= rng.min /\ parsed.val <= rng.max
    THEN proximityByDelta(Abs(sec - parsed.val))
    ELSE Msg("hint_proximity_after_valid", 0, 0, 0)

proximityHint(sec, input, rng, attemptCount) ==
    IF attemptCount <= 0 THEN Msg("hint_proximity_need_guess", 0, 0, 0)
    ELSE proximityOfParsed(sec, Number(input), rng)

hintText(typeKey, sec, input, rng, attemptCount) ==
    CASE typeKey = "parity" -> parityHint(sec)
      [] typeKey = "range" -> rangeHint(sec, rng)
      [] typeKey = "digit" -> digitHint(sec)
      [] typeKey = "proximity" -> proximityHint(sec, input, rng, attemptCount)

----------------------------------------------------------------------------
(* Exploration bounds: what the player, the random source and the audio   *)
(* element do.  A session follows one plan: a sequence of round profiles   *)
(* (how many wrong values the player submits in the round, whether the     *)
(* secret is ever typed, which hint types are requested, whether the timer *)
(* checkbox is used, whether malformed, out-of-range and repeated texts    *)
(* are typed), the new-round controls the player uses, and whether the     *)
(* promise of audio.play() settles in a later task (a browser) or is       *)
(* already settled when it is awaited (no playback).                       *)

ExtraSecrets == 1     \* secrets drawn: min .. min + ExtraSecrets, and max
EarlyTicks == 1       \* with the countdown running the player acts in the
LateTicks == 1        \* first EarlyTicks or the last LateTicks seconds
LongRounds == 3       \* rounds of the long session
FullSweep == 10       \* wrong values submitted in a round that is played out
ShortSweep == 1       \* wrong values submitted in a round that is cut short

Profile(w, s, h, t, x) ==
    [wrong |-> w, secret |-> s, hints |-> h, timer |-> t, slips |-> x]

Idle(t) == Profile(0, FALSE, {}, t, FALSE)

Moves == {"reset", "difficulty", "level"}

GuessPlan ==
    [rounds |-> <<Idle(FALSE), Profile(FullSweep, TRUE, {}, FALSE, TRUE),
                  Idle(FALSE)>>,
     moves |-> Moves, deferred |-> TRUE, writesFail |-> FALSE]
HintPlan ==
    [rounds |-> <<Idle(FALSE), Profile(ShortSweep, TRUE, HINT_TYPES, FALSE, TRUE),
                  Idle(FALSE)>>,
     moves |-> Moves, deferred |-> FALSE, writesFail |-> FALSE]
RacePlan ==
    [rounds |-> <<Idle(TRUE), Profile(0, TRUE, {}, TRUE, FALSE)>>,
     moves |-> Moves, deferred |-> TRUE, writesFail |-> FALSE]
LossPlan ==
    [rounds |-> <<Idle(TRUE), Profile(FullSweep, TRUE, {}, TRUE, FALSE)>>,
     moves |-> Moves, deferred |-> FALSE, writesFail |-> FALSE]
RestartPlan ==
    [rounds |-> <<Profile(0, TRUE, {}, TRUE, FALSE), Idle(TRUE)>>,
     moves |-> Moves, deferred |-> FALSE, writesFail |-> FALSE]
\* the long session: at most one wrong value and the parity hint per round
LongPlan ==
    [rounds |-> [i \in 1..LongRounds |-> Profile(1, TRUE, {"parity"}, FALSE, FALSE)],
     moves |-> {"reset", "level"}, deferred |-> FALSE, writesFail |-> FALSE]
\* a first-guess win, then rounds that are only started: the level is
\* switched and the difficulty overridden
OverridePlan ==
    [rounds |-> <<Profile(0, TRUE, {}, FALSE, FALSE), Idle(FALSE), Idle(FALSE)>>,
     moves |-> Moves, deferred |-> FALSE, writesFail |-> FALSE]

\* two rounds in a browser whose localStorage.setItem throws (quota, private
\* mode): every write is caught and dropped
QuotaPlan ==
    [rounds |-> <<Profile(1, TRUE, {"parity"}, FALSE, FALSE),
                  Profile(1, TRUE, {"parity"}, FALSE, FALSE)>>,
     moves |-> {"reset", "level"}, deferred |-> FALSE, writesFail |-> TRUE]

Plans == {GuessPlan, HintPlan, RacePlan, LossPlan, RestartPlan, LongPlan,
          OverridePlan}

profile == plan.rounds[round]

\* localStorage.setItem inside try/catch: the stored value after the write
setItem(stored, value) == IF plan.writesFail THEN stored ELSE value

MayStartRound(move) == round < Len(plan.rounds) /\ move \in plan.moves

\* Math.random() in generateSecret, restricted to a few draws
Secrets(rng) ==
    {v \in rng.min..rng.max : v <= rng.min + ExtraSecrets \/ v = rng.max}

\* the draws for the round that follows: where the player neither guesses
\* nor asks for a hint the secret is never read, and one draw stands for all
NextSecrets(rng) ==
    IF round < Len(plan.rounds) /\ plan.rounds[round + 1] \in {Idle(TRUE), Idle(FALSE)}
    THEN {rng.max}
    ELSE Secrets(rng)

timerRunning == intervals > 0

PlayerMayAct ==
    \/ ~timerRunning
    \/ timeLeft >= totalTime - EarlyTicks
    \/ timeLeft <= LateTicks

HistoryValues == {history[i].value : i \in 1..Len(history)}

WrongValues == HistoryValues \ {secret}

\* the next value of an ascending sweep of the range that skips the secret:
\* after n wrong values it is min + n, or the value after it from the secret on
SweepValue(n) ==
    IF range.min + n >= secret THEN range.min + n + 1 ELSE range.min + n

NextSweep ==
    IF Cardinality(WrongValues) >= profile.wrong
       \/ SweepValue(Cardinality(WrongValues)) > range.max
    THEN {}
    ELSE {SweepValue(Cardinality(WrongValues))}

\* values guessed before that the player types again: the first and the last
RepeatSamples ==
    IF history = <<>> THEN {}
    ELSE {history[1].value, history[Len(history)].value}

EmptyTexts == {<<>>, <<" ", " ">>}
NonNumericTexts == {<<"a", "b">>}
NonIntegerTexts == {<<"1", ".", "5">>}
OutOfRangeTexts == {String(range.min - 1), String(range.max + 1)}

InvalidTexts == EmptyTexts \cup NonNumericTexts \cup NonIntegerTexts
                \cup OutOfRangeTexts

RepeatTexts == {String(v) : v \in RepeatSamples}

\* texts in the box when a handler runs
TypedInputs ==
    {String(v) : v \in NextSweep}
    \cup (IF profile.secret THEN {String(secret)} ELSE {})
    \cup (IF profile.slips
          THEN InvalidTexts \cup RepeatTexts
               \cup {<<" ">> \o String(secret) \o <<".", "0">>}
          ELSE {})

----------------------------------------------------------------------------
(* Initial state: the component after its mount effect, which applies the  *)
(* Beginner preset (easy) on a browser whose storage is empty.             *)

Init ==
    /\ plan \in Plans
    /\ round = 1
    /\ difficulty = LEVEL_PRESET_DIFFICULTY["Beginner"]
    /\ range = DIFFICULTIES[difficulty]
    /\ secret \in Secrets(DIFFICULTIES[difficulty])
    /\ status = "playing"
    /\ attempts = 0
    /\ score = 0
    /\ hintTypesUsed = {}
    /\ history = <<>>
    /\ feedback = NoMsg
    /\ repeatWarning = NoMsg
    /\ lastHint = NoMsg
    /\ timerChallenge = FALSE
    /\ timeLeft = TIMER_CHALLENGE_DEFAULTS[difficulty]
    /\ totalTime = TIMER_CHALLENGE_DEFAULTS[difficulty]
    /\ level = "Beginner"
    /\ unlockedLevels = {"Beginner"}
    /\ achievements = DEFAULT_ACHIEVEMENTS
    /\ timerRef = FALSE
    /\ intervals = 0
    /\ pending = <<>>
    /\ leaderboard = <<>>
    /\ totalGames = 0
    /\ storedAchievements = DEFAULT_ACHIEVEMENTS
    /\ storedLevels = {"Beginner"}
    /\ now = 1

SetTimer(T) ==
    /\ timeLeft' = T.timeLeft
    /\ totalTime' = T.totalTime
    /\ timerRef' = T.timerRef
    /\ intervals' = T.intervals

TextVars == <<feedback, repeatWarning, lastHint>>
TimerVars == <<timeLeft, totalTime, timerRef, intervals>>
ProgressVars == <<level, unlockedLevels, storedLevels>>
AchievementVars == <<achievements, storedAchievements>>
StoreVars == <<leaderboard, totalGames>>
PlanVars == <<round, plan>>

----------------------------------------------------------------------------
(* New-round actions *)

\* a new round that keeps the guess history of the round before
StartRound_keepsHistory(nextDifficulty, rng, sec) ==
    /\ difficulty' = nextDifficulty
    /\ range' = rng
    /\ secret' = sec
    /\ feedback' = NoMsg
    /\ attempts' = 0
    /\ status' = "playing"
    /\ score' = 0
    /\ hintTypesUsed' = {}
    /\ lastHint' = NoMsg
    /\ history' = history
    /\ repeatWarning' = NoMsg
    /\ SetTimer(statusEffect(
           resetAndMaybeStartTimer(TimerNow, nextDifficulty, timerChallenge, status),
           status, "playing", timerChallenge, nextDifficulty))
    /\ round' = round + 1
    /\ UNCHANGED <<timerChallenge, pending, now, plan>>

\* the body shared by resetGame, handleDifficultyChange and
\* applyDifficultyPreset, followed by the [status] effect
StartRound(nextDifficulty, rng, sec) ==
    /\ difficulty' = nextDifficulty
    /\ range' = rng
    /\ secret' = sec
    /\ feedback' = NoMsg
    /\ attempts' = 0
    /\ status' = "playing"
    /\ score' = 0
    /\ hintTypesUsed' = {}
    /\ lastHint' = NoMsg
    /\ history' = <<>>
    /\ repeatWarning' = NoMsg
    /\ SetTimer(statusEffect(
           resetAndMaybeStartTimer(TimerNow, nextDifficulty, timerChallenge, status),
           status, "playing", timerChallenge, nextDifficulty))
    /\ round' = round + 1
    /\ UNCHANGED <<timerChallenge, pending, now, plan>>

resetGame ==
    /\ MayStartRound("reset")
    /\ PlayerMayAct
    /\ \E sec \in NextSecrets(range) : StartRound(difficulty, range, sec)
    /\ UNCHANGED <<ProgressVars, AchievementVars, StoreVars>>

\* handleDifficultyChange that draws the secret from the range on screen
handleDifficultyChange_oldRange(next) ==
    /\ MayStartRound("difficulty")
    /\ PlayerMayAct
    /\ \E sec \in NextSecrets(range) : StartRound(next, DIFFICULTIES[next], sec)
    /\ UNCHANGED <<ProgressVars, AchievementVars, StoreVars>>

handleDifficultyChange(next) ==
    /\ MayStartRound("difficulty")
    /\ PlayerMayAct
    /\ \E sec \in NextSecrets(DIFFICULTIES[next]) :
           StartRound(next, DIFFICULTIES[next], sec)
    /\ UNCHANGED <<ProgressVars, AchievementVars, StoreVars>>

applyDifficultyPreset(nextDifficulty) ==
    \E sec \in NextSecrets(DIFFICULTIES[nextDifficulty]) :
        StartRound(nextDifficulty, DIFFICULTIES[nextDifficulty], sec)

\* handleLevelChange without the gate on unlockedLevels
handleLevelChange_noGate(nextLevel) ==
    /\ MayStartRound("level")
    /\ PlayerMayAct
    /\ level' = nextLevel
    /\ applyDifficultyPreset(LEVEL_PRESET_DIFFICULTY[nextLevel])
    /\ UNCHANGED <<unlockedLevels, storedLevels, AchievementVars, StoreVars>>

handleLevelChange(nextLevel) ==
    /\ MayStartRound("level")
    /\ PlayerMayAct
    /\ IF nextLevel \notin unlockedLevels
       THEN UNCHANGED vars
       ELSE /\ level' = nextLevel
            /\ applyDifficultyPreset(LEVEL_PRESET_DIFFICULTY[nextLevel])
            /\ UNCHANGED <<unlockedLevels, storedLevels, AchievementVars, StoreVars>>

----------------------------------------------------------------------------
(* Timer *)

\* onChange of the timer checkbox: setTimerChallenge, then the
\* [timerChallenge] effect
toggleTimerChallenge(checked) ==
    /\ profile.timer
    /\ PlayerMayAct
    /\ timerChallenge' = checked
    /\ SetTimer(timerChallengeEffect(TimerNow, timerChallenge, checked,
                                     difficulty, status))
    /\ UNCHANGED <<difficulty, range, secret, status, attempts, score,
                   hintTypesUsed, history, TextVars, ProgressVars,
                   AchievementVars, StoreVars, pending, now, PlanVars>>

\* a countdown whose tick takes two seconds off
timerTick_twoSeconds ==
    /\ intervals > 0
    /\ LET next == timeLeft - 2
       IN  IF next <= 0
           THEN /\ status' = "timeout"
                /\ feedback' = Msg("feedback_timeout_round_over", 0, 0, 0)
                /\ totalGames' = setItem(totalGames, incrementTotalGames(totalGames))
                /\ SetTimer(statusEffect(
                       [clearTimer(TimerNow) EXCEPT !.timeLeft = 0],
                       status, "timeout", timerChallenge, difficulty))
           ELSE /\ SetTimer([TimerNow EXCEPT !.timeLeft = next])
                /\ UNCHANGED <<status, feedback, totalGames>>
    /\ UNCHANGED <<difficulty, range, secret, attempts, score, hintTypesUsed,
                   history, repeatWarning, lastHint, timerChallenge,
                   ProgressVars, AchievementVars, leaderboard, pending, now,
                   PlanVars>>

\* one firing of a scheduled interval: the setTimeLeft updater, then the
\* [status] effect
timerTick ==
    /\ intervals > 0
    /\ LET next == timeLeft - 1
       IN  IF next <= 0
           THEN /\ status' = "timeout"
                /\ feedback' = Msg("feedback_timeout_round_over", 0, 0, 0)
                /\ totalGames' = setItem(totalGames, incrementTotalGames(totalGames))
                /\ SetTimer(statusEffect(
                       [clearTimer(TimerNow) EXCEPT !.timeLeft = 0],
                       status, "timeout", timerChallenge, difficulty))
           ELSE /\ SetTimer([TimerNow EXCEPT !.timeLeft = next])
                /\ UNCHANGED <<status, feedback, totalGames>>
    /\ UNCHANGED <<difficulty, range, secret, attempts, score, hintTypesUsed,
                   history, repeatWarning, lastHint, timerChallenge,
                   ProgressVars, AchievementVars, leaderboard, pending, now,
                   PlanVars>>

----------------------------------------------------------------------------
(* Guess submission *)

\* the branch handleSubmit takes on the text in the box
\* outcomeOf without the return on a terminal status
outcomeOf_noTerminalReturn(validation) ==
    IF ~validation.ok THEN "invalid"
    ELSE IF isRepeatGuess(validation.value, history) THEN "repeat"
    ELSE resultLabelOf(validation.value, secret)

outcomeOf(validation) ==
    IF status \in TerminalStatuses THEN "ignored"
    ELSE IF ~validation.ok THEN "invalid"
    ELSE IF isRepeatGuess(validation.value, history) THEN "repeat"
    ELSE resultLabelOf(validation.value, secret)

submitOutcome(input) == outcomeOf(validateInput(input, range))

timeBonusPctOf(tc, tLeft, tTotal) ==
    IF tc /\ tTotal > 0 THEN RoundDiv(50 * Max2(0, tLeft), tTotal) ELSE 0

\* what the continuation after `await playSuccessSound()` reads from the
\* render in which the guess was submitted
Closure(nextAttempts, finalScore) ==
    [nextAttempts |-> nextAttempts,
     hintCount |-> hintCountOf(hintTypesUsed),
     secret |-> secret,
     finalScore |-> finalScore,
     timeBonusPct |-> timeBonusPctOf(timerChallenge, timeLeft, totalTime),
     timerChallenge |-> timerChallenge,
     level |-> level,
     unlockedLevels |-> unlockedLevels]

\* handleSubmit from setFeedback (line 566) to clearTimer (line 609), then
\* the [status] effect
WinCommit(c) ==
    LET toUnlock == toUnlockOf(c.nextAttempts, c.hintCount)
        res == unlockAchievements(storedAchievements, toUnlock, now)
    IN  /\ feedback' = IF c.timerChallenge
                       THEN Msg("feedback_correct_timebonus", c.secret,
                                c.finalScore, c.timeBonusPct)
                       ELSE Msg("feedback_correct", c.secret, c.finalScore, 0)
        /\ status' = "won"
        /\ totalGames' = setItem(totalGames, incrementTotalGames(totalGames))
        /\ unlockedLevels' = unlockedAfterWin(c.level, c.unlockedLevels, unlockedLevels)
        /\ storedLevels' = setItem(storedLevels,
               storedAfterWin(c.level, c.unlockedLevels, storedLevels))
        /\ achievements' = IF toUnlock # {} THEN res.next ELSE achievements
        /\ storedAchievements' = IF res.newly # {}
                                 THEN setItem(storedAchievements, res.next)
                                 ELSE storedAchievements
        /\ SetTimer(statusEffect(clearTimer(TimerNow), status, "won",
                                 timerChallenge, difficulty))
        /\ UNCHANGED level

\* an entry that records the countdown whether or not timer mode is on
leaderboardEntry_alwaysTimed(nextAttempts, finalScore) ==
    [timestamp |-> now,
     difficulty |-> difficulty,
     attempts |-> nextAttempts,
     score |-> finalScore,
     timerChallenge |-> timerChallenge,
     timeRemaining |-> Max2(0, timeLeft),
     totalTime |-> totalTime]

leaderboardEntry(nextAttempts, finalScore) ==
    [timestamp |-> now,
     difficulty |-> difficulty,
     attempts |-> nextAttempts,
     score |-> finalScore,
     timerChallenge |-> timerChallenge,
     timeRemaining |-> IF timerChallenge THEN Max2(0, timeLeft) ELSE -1,
     totalTime |-> IF timerChallenge THEN totalTime ELSE -1]

\* the correct branch up to the await; when play() is already settled the
\* continuation runs in the same task
CorrectGuess(nextAttempts, finalScore) ==
    /\ score' = finalScore
    /\ leaderboard' = setItem(leaderboard,
           addResult(leaderboard, leaderboardEntry(nextAttempts, finalScore)))
    /\ now' = now + 1
    /\ IF plan.deferred
       THEN /\ pending' = Append(pending, Closure(nextAttempts, finalScore))
            /\ UNCHANGED <<status, feedback, totalGames, ProgressVars,
                           AchievementVars, TimerVars>>
       ELSE /\ WinCommit(Closure(nextAttempts, finalScore))
            /\ UNCHANGED pending

WrongGuess(nextAttempts, resultLabel) ==
    /\ IF MAX_ATTEMPTS[difficulty] - nextAttempts <= 0
       THEN /\ status' = "out_of_attempts"
            /\ feedback' = Msg("feedback_out_attempts", 0, 0, 0)
            /\ totalGames' = setItem(totalGames, incrementTotalGames(totalGames))
            /\ SetTimer(statusEffect(clearTimer(TimerNow), status,
                                     "out_of_attempts", timerChallenge, difficulty))
       ELSE /\ feedback' = IF resultLabel = "too low"
                           THEN Msg("feedback_low", 0, 0, 0)
                           ELSE Msg("feedback_high", 0, 0, 0)
            /\ UNCHANGED <<status, totalGames, TimerVars>>
    /\ UNCHANGED <<score, leaderboard, pending, now, ProgressVars, AchievementVars>>

submitBranch(outcome, validation) ==
    CASE outcome = "ignored" -> UNCHANGED vars
      [] outcome = "invalid" ->
             /\ feedback' = validation.message
             /\ UNCHANGED <<difficulty, range, secret, status, attempts,
                            score, hintTypesUsed, history, repeatWarning,
                            lastHint, timerChallenge, TimerVars,
                            ProgressVars, AchievementVars, StoreVars,
                            pending, now, PlanVars>>
      [] outcome = "repeat" ->
             /\ repeatWarning' = Msg("repeat_warning", validation.value, 0, 0)
             /\ UNCHANGED <<difficulty, range, secret, status, attempts,
                            score, hintTypesUsed, history, feedback,
                            lastHint, timerChallenge, TimerVars,
                            ProgressVars, AchievementVars, StoreVars,
                            pending, now, PlanVars>>
      [] OTHER ->
             /\ repeatWarning' = NoMsg
             /\ attempts' = attempts + 1
             /\ history' = Append(history,
                    makeHistoryEntry(Len(history) + 1, validation.value, outcome))
             /\ IF outcome = "correct"
                THEN CorrectGuess(attempts + 1,
                         finalScoreOf(attempts + 1, range.max,
                                      hintCountOf(hintTypesUsed),
                                      timerChallenge, timeLeft, totalTime))
                ELSE WrongGuess(attempts + 1, outcome)
             /\ UNCHANGED <<difficulty, range, secret, hintTypesUsed,
                            lastHint, timerChallenge, PlanVars>>

handleSubmit(input) ==
    /\ PlayerMayAct
    /\ submitBranch(submitOutcome(input), validateInput(input, range))

\* the play() promise of the oldest pending win settles: the rest of that
\* handleSubmit call runs
SoundSettled ==
    /\ pending # <<>>
    /\ WinCommit(Head(pending))
    /\ pending' = Tail(pending)
    /\ UNCHANGED <<difficulty, range, secret, attempts, score, hintTypesUsed,
                   history, repeatWarning, lastHint, timerChallenge,
                   leaderboard, now, PlanVars>>

----------------------------------------------------------------------------
(* Hints *)

\* announceHint that keeps the latest type only
announceHint_latestOnly(used, typeKey) == {typeKey}

announceHint(used, typeKey) == used \cup {typeKey}

HintAllowed(typeKey) ==
    /\ PlayerMayAct
    /\ \/ status # "playing"
       \/ typeKey \in hintTypesUsed
       \/ typeKey \in profile.hints

\* a hint request that also uses up an attempt
handleHint_countsAttempt(typeKey, input) ==
    /\ HintAllowed(typeKey)
    /\ IF status # "playing"
       THEN UNCHANGED vars
       ELSE /\ lastHint' = hintText(typeKey, secret, input, range, attempts)
            /\ feedback' = hintText(typeKey, secret, input, range, attempts)
            /\ hintTypesUsed' = announceHint(hintTypesUsed, typeKey)
            /\ attempts' = attempts + 1
            /\ UNCHANGED <<difficulty, range, secret, status, score,
                           history, repeatWarning, timerChallenge, TimerVars,
                           ProgressVars, AchievementVars, StoreVars, pending,
                           now, PlanVars>>

handleHint(typeKey, input) ==
    /\ HintAllowed(typeKey)
    /\ IF status # "playing"
       THEN UNCHANGED vars
       ELSE /\ lastHint' = hintText(typeKey, secret, input, range, attempts)
            /\ feedback' = hintText(typeKey, secret, input, range, attempts)
            /\ hintTypesUsed' = announceHint(hintTypesUsed, typeKey)
            /\ UNCHANGED <<difficulty, range, secret, status, attempts, score,
                           history, repeatWarning, timerChallenge, TimerVars,
                           ProgressVars, AchievementVars, StoreVars, pending,
                           now, PlanVars>>

handleParityHint == handleHint("parity", <<>>)
handleRangeHint == handleHint("range", <<>>)
handleDigitHint == handleHint("digit", <<>>)
\* a proximity request before the first guess that leaves the type unused
handleProximityHint_freeReminder(input) ==
    IF status = "playing" /\ attempts <= 0
    THEN /\ HintAllowed("proximity")
         /\ lastHint' = proximityHint(secret, input, range, attempts)
         /\ feedback' = proximityHint(secret, input, range, attempts)
         /\ UNCHANGED <<difficulty, range, secret, status, attempts, score,
                        hintTypesUsed, history, repeatWarning, timerChallenge,
                        TimerVars, ProgressVars, AchievementVars, StoreVars,
                        pending, now, PlanVars>>
    ELSE handleHint("proximity", input)

handleProximityHint(input) == handleHint("proximity", input)

\* texts in the box when the proximity hint is requested
ProximityInputs == {<<>>} \cup {String(v) : v \in NextSweep \cup RepeatSamples}

----------------------------------------------------------------------------

Next ==
    \/ \E input \in TypedInputs : handleSubmit(input)
    \/ SoundSettled
    \/ handleParityHint
    \/ handleRangeHint
    \/ handleDigitHint
    \/ \E input \in ProximityInputs : handleProximityHint(input)
    \/ timerTick
    \/ \E checked \in BOOLEAN : toggleTimerChallenge(checked)
    \/ resetGame
    \/ \E next \in DifficultyNames : handleDifficultyChange(next)
    \/ \E nextLevel \in LEVELS : handleLevelChange(nextLevel)

Spec == Init /\ [][Next]_vars

\* setInterval fires its callback every second for as long as the interval is
\* scheduled: a tick that stays enabled is eventually taken
TimerSpec == Init /\ [][Next]_vars /\ WF_vars(timerTick)

----------------------------------------------------------------------------
(* The session in a browser that refuses every storage write *)

QuotaInit ==
    /\ plan = QuotaPlan
    /\ round = 1
    /\ difficulty = LEVEL_PRESET_DIFFICULTY["Beginner"]
    /\ range = DIFFICULTIES[difficulty]
    /\ secret \in Secrets(DIFFICULTIES[difficulty])
    /\ status = "playing"
    /\ attempts = 0
    /\ score = 0
    /\ hintTypesUsed = {}
    /\ history = <<>>
    /\ feedback = NoMsg
    /\ repeatWarning = NoMsg
    /\ lastHint = NoMsg
    /\ timerChallenge = FALSE
    /\ timeLeft = TIMER_CHALLENGE_DEFAULTS[difficulty]
    /\ totalTime = TIMER_CHALLENGE_DEFAULTS[difficulty]
    /\ level = "Beginner"
    /\ unlockedLevels = {"Beginner"}
    /\ achievements = DEFAULT_ACHIEVEMENTS
    /\ timerRef = FALSE
    /\ intervals = 0
    /\ pending = <<>>
    /\ leaderboard = <<>>
    /\ totalGames = 0
    /\ storedAchievements = DEFAULT_ACHIEVEMENTS
    /\ storedLevels = {"Beginner"}
    /\ now = 1

QuotaNext ==
    \/ \E input \in TypedInputs : handleSubmit(input)
    \/ handleParityHint
    \/ resetGame
    \/ \E nextLevel \in LEVELS : handleLevelChange(nextLevel)

QuotaSpec == QuotaInit /\ [][QuotaNext]_vars

----------------------------------------------------------------------------
(* Loading the level progress, over the contents of its storage key *)

MaxStoredList == 3   \* length of a stored `unlocked` array

\* identifiers a stored array may hold: the levels and an unknown one
StoredIdentifiers == LEVELS \cup {"Master"}

StoredLists ==
    UNION {[1..n -> StoredIdentifiers] : n \in 0..MaxStoredList}

StoredLevelContents ==
    {[kind |-> k, unlocked |-> <<>>] : k \in {"missing", "unparsable", "no array"}}
        \cup {[kind |-> "list", unlocked |-> l] : l \in StoredLists}

\* the state after construction, before the mount effect
LoadInit ==
    /\ plan = OverridePlan
    /\ round = 1
    /\ difficulty = LEVEL_PRESET_DIFFICULTY["Beginner"]
    /\ range = DIFFICULTIES[difficulty]
    /\ secret \in Secrets(DIFFICULTIES[difficulty])
    /\ status = "playing"
    /\ attempts = 0
    /\ score = 0
    /\ hintTypesUsed = {}
    /\ history = <<>>
    /\ feedback = NoMsg
    /\ repeatWarning = NoMsg
    /\ lastHint = NoMsg
    /\ timerChallenge = FALSE
    /\ timeLeft = TIMER_CHALLENGE_DEFAULTS[difficulty]
    /\ totalTime = TIMER_CHALLENGE_DEFAULTS[difficulty]
    /\ level = "Beginner"
    /\ storedLevels \in StoredLevelContents
    /\ unlockedLevels = readLevelProgress(storedLevels)
    /\ achievements = DEFAULT_ACHIEVEMENTS
    /\ timerRef = FALSE
    /\ intervals = 0
    /\ pending = <<>>
    /\ leaderboard = <<>>
    /\ totalGames = 0
    /\ storedAchievements = DEFAULT_ACHIEVEMENTS
    /\ now = 1

\* the mount effect
mountEffect ==
    /\ round = 1
    /\ unlockedLevels' = readLevelProgress(storedLevels)
    /\ level' = "Beginner"
    /\ applyDifficultyPreset(LEVEL_PRESET_DIFFICULTY["Beginner"])
    /\ achievements' = storedAchievements
    /\ UNCHANGED <<storedLevels, storedAchievements, StoreVars>>

LoadNext == mountEffect

LoadSpec == LoadInit /\ [][LoadNext]_vars

----------------------------------------------------------------------------
(* The scoring of a win, over the inputs of computeScore and of the
   correct branch of handleSubmit *)

\* attempts made before the winning guess: 0..MaxScoreAttempts
MaxScoreAttempts == 11
\* the ranges 0..m below the presets, m in 0..MaxScoreRange
MaxScoreRange == 3

ScoreRanges(d) ==
    {DIFFICULTIES[d]}
        \cup (IF d = "easy"
              THEN {[min |-> 0, max |-> m] : m \in 0..MaxScoreRange}
              ELSE {})

\* the countdown's remaining seconds at the moment of the win
ScoreTimeSamples(total) == {1, total \div 2, total}

ScoreInit ==
    /\ plan = HintPlan
    /\ round = 1
    /\ difficulty \in DifficultyNames
    /\ range \in ScoreRanges(difficulty)
    /\ secret = range.max
    /\ status = "playing"
    /\ attempts \in 0..MaxScoreAttempts
    /\ score = 0
    /\ hintTypesUsed \in SUBSET HINT_TYPES
    /\ history = <<>>
    /\ feedback = NoMsg
    /\ repeatWarning = NoMsg
    /\ lastHint = NoMsg
    /\ timerChallenge \in BOOLEAN
    /\ totalTime = TIMER_CHALLENGE_DEFAULTS[difficulty]
    /\ timeLeft \in IF timerChallenge THEN ScoreTimeSamples(totalTime)
                    ELSE {totalTime}
    /\ level = "Beginner"
    /\ unlockedLevels = {"Beginner"}
    /\ achievements = DEFAULT_ACHIEVEMENTS
    /\ timerRef = timerChallenge
    /\ intervals = IF timerChallenge THEN 1 ELSE 0
    /\ pending = <<>>
    /\ leaderboard = <<>>
    /\ totalGames = 0
    /\ storedAchievements = DEFAULT_ACHIEVEMENTS
    /\ storedLevels = {"Beginner"}
    /\ now = 1

\* handleSubmit with the secret in the box
ScoreWin ==
    /\ status = "playing"
    /\ submitBranch(submitOutcome(String(secret)),
                    validateInput(String(secret), range))

ScoreNext == ScoreWin

ScoreSpec == ScoreInit /\ [][ScoreNext]_vars

----------------------------------------------------------------------------
(* The durable log and counter, over sequences of addResult and
   incrementTotalGames calls *)

FreeAdds == 3      \* adds whose entry is any of the kinds
MaxAdds == 52      \* adds of the session that fills the log
MaxCounter == 4    \* the lifetime counter is incremented up to this value

\* the argument of addResult as handleSubmit builds it
LogEntry(t, d, a, h, tc, left) ==
    [timestamp |-> t,
     difficulty |-> d,
     attempts |-> a,
     score |-> finalScoreOf(a, DIFFICULTIES[d].max, h, tc, left,
                            TIMER_CHALLENGE_DEFAULTS[d]),
     timerChallenge |-> tc,
     timeRemaining |-> IF tc THEN left ELSE -1,
     totalTime |-> IF tc THEN TIMER_CHALLENGE_DEFAULTS[d] ELSE -1]

LogKinds == 1..5

\* wins of five kinds: scores tie across attempts, and attempts across scores
LogEntryOfKind(t, k) ==
    CASE k = 1 -> LogEntry(t, "easy", 1, 0, FALSE, 0)
      [] k = 2 -> LogEntry(t, "hard", 1, 0, TRUE, 30)
      [] k = 3 -> LogEntry(t, "easy", 3, 0, FALSE, 0)
      [] k = 4 -> LogEntry(t, "medium", 1, 1, FALSE, 0)
      [] k = 5 -> LogEntry(t, "easy", 3, 0, TRUE, 20)

\* a short session with any kinds of wins, a long one that fills the log
LogPlans == {[adds |-> FreeAdds, free |-> TRUE], [adds |-> MaxAdds, free |-> FALSE]}

LogInit ==
    /\ plan \in LogPlans
    /\ round = 1
    /\ difficulty = LEVEL_PRESET_DIFFICULTY["Beginner"]
    /\ range = DIFFICULTIES[difficulty]
    /\ secret = range.min
    /\ status = "playing"
    /\ attempts = 0
    /\ score = 0
    /\ hintTypesUsed = {}
    /\ history = <<>>
    /\ feedback = NoMsg
    /\ repeatWarning = NoMsg
    /\ lastHint = NoMsg
    /\ timerChallenge = FALSE
    /\ timeLeft = TIMER_CHALLENGE_DEFAULTS[difficulty]
    /\ totalTime = TIMER_CHALLENGE_DEFAULTS[difficulty]
    /\ level = "Beginner"
    /\ unlockedLevels = {"Beginner"}
    /\ achievements = DEFAULT_ACHIEVEMENTS
    /\ timerRef = FALSE
    /\ intervals = 0
    /\ pending = <<>>
    /\ leaderboard = <<>>
    /\ totalGames = 0
    /\ storedAchievements = DEFAULT_ACHIEVEMENTS
    /\ storedLevels = {"Beginner"}
    /\ now = 1

LogFrame ==
    <<difficulty, range, secret, status, attempts, score, hintTypesUsed,
      history, TextVars, timerChallenge, TimerVars, ProgressVars,
      AchievementVars, pending, PlanVars>>

\* addResult(entry) at time now
LogAdd ==
    /\ now <= plan.adds
    /\ \E k \in IF plan.free THEN LogKinds ELSE {((now - 1) % 5) + 1} :
           leaderboard' = addResult(leaderboard, LogEntryOfKind(now, k))
    /\ now' = now + 1
    /\ UNCHANGED <<totalGames, LogFrame>>

\* incrementTotalGames() of a concluded round
LogCount ==
    /\ plan.free
    /\ totalGames < MaxCounter
    /\ totalGames' = incrementTotalGames(totalGames)
    /\ UNCHANGED <<leaderboard, now, LogFrame>>

LogNext == LogAdd \/ LogCount

LogSpec == LogInit /\ [][LogNext]_vars

----------------------------------------------------------------------------
(* The range hint, over every secret of every preset range *)

RangeHintInit ==
    /\ plan = HintPlan
    /\ round = 2
    /\ difficulty \in DifficultyNames
    /\ range = DIFFICULTIES[difficulty]
    /\ secret \in range.min..range.max
    /\ status = "playing"
    /\ attempts = 0
    /\ score = 0
    /\ hintTypesUsed = {}
    /\ history = <<>>
    /\ feedback = NoMsg
    /\ repeatWarning = NoMsg
    /\ lastHint = NoMsg
    /\ timerChallenge = FALSE
    /\ timeLeft = TIMER_CHALLENGE_DEFAULTS[difficulty]
    /\ totalTime = TIMER_CHALLENGE_DEFAULTS[difficulty]
    /\ level = "Beginner"
    /\ unlockedLevels = {"Beginner"}
    /\ achievements = DEFAULT_ACHIEVEMENTS
    /\ timerRef = FALSE
    /\ intervals = 0
    /\ pending = <<>>
    /\ leaderboard = <<>>
    /\ totalGames = 0
    /\ storedAchievements = DEFAULT_ACHIEVEMENTS
    /\ storedLevels = {"Beginner"}
    /\ now = 1

RangeHintNext == handleRangeHint

RangeHintSpec == RangeHintInit /\ [][RangeHintNext]_vars

----------------------------------------------------------------------------
(* Properties *)

\* a step that adds the secret to the history of a round in play
CorrectSubmit ==
    /\ status = "playing"
    /\ round' = round
    /\ Len(history') = Len(history) + 1
    /\ history'[Len(history')].value = secret

\* a step of one of the new-round controls
NewRoundStep == round' = round + 1

\* C1: in a round in play, submitting a valid, not-yet-guessed input equal to
\* the secret moves the round to won and appends exactly one leaderboard
\* entry whose attempts field is the previous attempt count plus one; no
\* other step appends an entry.
C1_CorrectGuessWinsAndAppends ==
    [][/\ CorrectSubmit =>
              /\ status' = "won"
              /\ attempts' = attempts + 1
              /\ leaderboard' = <<leaderboard'[1]>> \o leaderboard
              /\ leaderboard'[1].attempts = attempts + 1
       /\ leaderboard' # leaderboard => CorrectSubmit]_vars

\* C2: once the status is won, timeout or out_of_attempts, only a new-round
\* action changes it.
C2_TerminalStatusIsFinal ==
    [][(status \in TerminalStatuses /\ status' # status) => NewRoundStep]_vars

\* C3: a guess is processed atomically: while the win of a correct guess is
\* recorded in the leaderboard but not yet committed, the only step taken is
\* that commit.
C3_NothingBetweenAppendAndCommit ==
    [][pending # <<>> => (pending' = Tail(pending) /\ status' = "won")]_vars

\* the fields of a round that an ignored submission must leave alone
RoundFrame == <<attempts, history, status, secret, hintTypesUsed>>

\* everything but the repeat warning
AllButRepeatWarning ==
    <<difficulty, range, secret, status, attempts, score, hintTypesUsed,
      history, feedback, lastHint, timerChallenge, TimerVars, ProgressVars,
      AchievementVars, StoreVars, pending>>

\* C4: submitting a valid value that is already in the round's history
\* leaves attempts, history, status, secret and the hint set unchanged; the
\* repeat warning naming the value is all it produces.  (The submission takes
\* the repeat branch, and a step that puts up a repeat warning changes
\* nothing else.)
C4_RepeatGuessOnlyWarns ==
    /\ [](status = "playing" =>
              \A i \in 1..Len(history) :
                  submitOutcome(String(history[i].value)) = "repeat")
    /\ [][(repeatWarning' # repeatWarning /\ repeatWarning' # NoMsg) =>
              /\ repeatWarning'.key = "repeat_warning"
              /\ repeatWarning'.a \in HistoryValues
              /\ UNCHANGED RoundFrame
              /\ UNCHANGED AllButRepeatWarning]_vars

\* a repeat warning is on display in a round with a hint used
C4_Witness ==
    /\ status = "playing"
    /\ repeatWarning.key = "repeat_warning"
    /\ repeatWarning.a \in HistoryValues
    /\ hintTypesUsed # {}
    /\ attempts = Len(history)

ValidationErrors == {"guessLabel", "submitGuessTitle", "guessPlaceholder"}

\* C5 as stated: in every state of the round, terminal ones included, an
\* empty, non-numeric, non-integer or out-of-range text is answered with a
\* validation error.
C5_InvalidInputAlwaysRejected ==
    \A input \in InvalidTexts : submitOutcome(input) = "invalid"

\* a step that puts up a validation error
ValidationErrorStep == feedback' # feedback /\ feedback'.key \in ValidationErrors

\* C5, amended: while the round is in play such a text is answered with a
\* validation error, and in every state of the round submitting it leaves
\* attempts, history, status, secret and the hint set unchanged.
C5_InvalidInputRejectedWhilePlaying ==
    /\ [](\A input \in InvalidTexts :
              IF status = "playing"
              THEN submitOutcome(input) = "invalid"
              ELSE ~ENABLED (handleSubmit(input) /\ RoundFrame' # RoundFrame))
    /\ [][ValidationErrorStep =>
              /\ status = "playing"
              /\ \E input \in InvalidTexts : handleSubmit(input)
              /\ UNCHANGED RoundFrame]_vars

\* an out-of-range rejection is on display after guesses and a hint
C5_Witness ==
    /\ status = "playing"
    /\ feedback = Msg("guessPlaceholder", range.min, range.max, 0)
    /\ attempts > 0
    /\ hintTypesUsed # {}

\* what a handler must not touch once the round is over
TerminalFrame ==
    <<attempts, history, hintTypesUsed, status, score, leaderboard, totalGames,
      achievements, storedAchievements, unlockedLevels, storedLevels>>

SubmitOrHint ==
    \/ \E input \in TypedInputs : handleSubmit(input)
    \/ handleParityHint
    \/ handleRangeHint
    \/ handleDigitHint
    \/ \E input \in ProximityInputs : handleProximityHint(input)

\* C6: in a terminal status no submission and no hint request changes
\* attempts, history, hint set, status, score, leaderboard, lifetime counter,
\* achievements or unlocked levels.
C6_TerminalSubmitAndHintsAreNoOps ==
    status \in TerminalStatuses =>
        ~ENABLED (SubmitOrHint /\ TerminalFrame' # TerminalFrame)

\* a won round with a hint used in which a value can still be typed and a
\* hint requested
C6_Witness ==
    /\ status = "won"
    /\ hintTypesUsed # {}
    /\ NextSweep # {}
    /\ HintAllowed("range")
    /\ PlayerMayAct

\* a step that adds a value other than the secret to the history of a round
\* in play
WrongSubmit ==
    /\ status = "playing"
    /\ round' = round
    /\ Len(history') = Len(history) + 1
    /\ history'[Len(history')].value # secret

PresetMaxAttempts == [easy |-> 6, medium |-> 8, hard |-> 10]

\* C7: an incorrect unique guess that brings attempts to the difficulty's
\* maximum (6, 8, 10) ends the round as out_of_attempts in that step, with no
\* leaderboard entry; one that leaves attempts below it keeps the round in play.
C7_LastWrongGuessEndsRound ==
    [][WrongSubmit =>
           /\ attempts' = attempts + 1
           /\ leaderboard' = leaderboard
           /\ attempts' = PresetMaxAttempts[difficulty] => status' = "out_of_attempts"
           /\ attempts' < PresetMaxAttempts[difficulty] => status' = "playing"]_vars

\* a hard round lost on its tenth wrong guess
C7_Witness ==
    /\ status = "out_of_attempts"
    /\ difficulty = "hard"
    /\ attempts = 10
    /\ Len(history) = 10
    /\ leaderboard = <<>>

\* C8: the countdown reaching 0 in a round in play makes the status timeout,
\* appends no leaderboard entry, leaves the history alone and adds exactly 1
\* to the lifetime counter.
C8_CountdownZeroIsTimeout ==
    [][(status = "playing" /\ timeLeft # 0 /\ timeLeft' = 0) =>
           /\ status' = "timeout"
           /\ leaderboard' = leaderboard
           /\ history' = history
           /\ totalGames' = totalGames + 1]_vars

\* a round with guesses that timed out
C8_Witness ==
    /\ status = "timeout"
    /\ timeLeft = 0
    /\ history # <<>>
    /\ totalGames = 1
    /\ leaderboard = <<>>

\* C9: the lifetime counter moves only when a round in play concludes, then
\* by exactly 1; so a round adds 1 when it concludes, 0 when it is replaced
\* while in play, and never 2.
C9_CounterCountsConcludedRounds ==
    [][/\ totalGames' # totalGames =>
              /\ totalGames' = totalGames + 1
              /\ status = "playing" /\ status' \in TerminalStatuses
              /\ round' = round
       /\ (status = "playing" /\ status' \in TerminalStatuses) =>
              totalGames' = totalGames + 1]_vars

PresetRange == [easy |-> [min |-> 1, max |-> 20], medium |-> [min |-> 1, max |-> 50],
                hard |-> [min |-> 1, max |-> 100]]

PresetSeconds == [easy |-> 30, medium |-> 45, hard |-> 60]

\* the round that a new-round control leaves behind, on difficulty d
FreshRound(d) ==
    /\ difficulty' = d
    /\ attempts' = 0
    /\ history' = <<>>
    /\ hintTypesUsed' = {}
    /\ score' = 0
    /\ status' = "playing"
    /\ range' = PresetRange[d]
    /\ MAX_ATTEMPTS[difficulty'] = PresetMaxAttempts[d]
    /\ totalTime' = PresetSeconds[d]
    /\ timeLeft' = PresetSeconds[d]

\* C10: from every reachable state, reset/play-again and a difficulty change
\* leave a round with attempts 0, empty history, no hint used, score 0 and
\* status playing, with the range, maximum attempts and timer duration of the
\* selected difficulty.
C10_NewRoundIsFresh ==
    [][/\ (NewRoundStep /\ resetGame) => FreshRound(difficulty)
       /\ \A next \in DifficultyNames :
              (NewRoundStep /\ handleDifficultyChange(next)) => FreshRound(next)]_vars

\* a fresh hard round that follows a won round
C10_Witness ==
    /\ round = 3
    /\ difficulty = "hard"
    /\ leaderboard # <<>>
    /\ totalGames > 0
    /\ status = "playing"
    /\ attempts = 0
    /\ history = <<>>

\* C11: a new-round action cancels the scheduled countdown task before it
\* sets up the new round: at most one countdown task is ever scheduled, none
\* while the status is terminal or timer mode is off, and a new round starts
\* its countdown from the full duration of its difficulty.
C11_OneCountdownAtMost ==
    /\ [](/\ intervals <= 1
          /\ (status \in TerminalStatuses \/ ~timerChallenge) => intervals = 0)
    /\ [][NewRoundStep =>
              /\ timeLeft' = PresetSeconds[difficulty']
              /\ totalTime' = PresetSeconds[difficulty']
              /\ intervals' = IF timerChallenge' THEN 1 ELSE 0]_vars

\* the countdown of a later round on hard has ticked
C11_Witness ==
    /\ round > 1
    /\ difficulty = "hard"
    /\ intervals = 1
    /\ timerChallenge
    /\ timeLeft < totalTime
    /\ status = "playing"

\* the guesses of the round so far are 1, 2, 3, ... in order
InOrderSweep == \A i \in 1..Len(history) : history[i].value = i

\* C12: on easy (1..20) with any secret, submitting 1, 2, ..., 20 in order
\* to a fresh round reaches the secret: the sweep is never cut off by the
\* round ending as out_of_attempts before the secret has been submitted.
C12_SweepReachesSecret ==
    (difficulty = "easy" /\ InOrderSweep /\ secret \notin HistoryValues)
        => status # "out_of_attempts"

\* max(0, round(1000 * (m - a + 1) / m)) with m = max(1, rangeMax), where
\* round takes halves upwards
ExpectedBase(a, rangeMax) ==
    LET m == IF rangeMax >= 1 THEN rangeMax ELSE 1
        q == (2000 * (m - a + 1) + m) \div (2 * m)
    IN  IF q >= 0 THEN q ELSE 0

\* C13: baseScore(attemptsUsed, rangeMax) is
\* max(0, round(1000 * (rangeMax' - attemptsUsed + 1) / rangeMax')) with
\* rangeMax' = max(1, rangeMax); it is never negative, and for a fixed
\* rangeMax more attempts never give a higher base score. A win without
\* hints and without the countdown scores exactly the base score.
C13_BaseScoreFormulaAndMonotone ==
    /\ \A a \in 1..(MaxScoreAttempts + 1) :
          /\ computeScore(a, range.max) = ExpectedBase(a, range.max)
          /\ computeScore(a, range.max) >= 0
          /\ computeScore(a + 1, range.max) <= computeScore(a, range.max)
    /\ (status = "won" /\ hintTypesUsed = {} /\ ~timerChallenge)
          => score = ExpectedBase(attempts, range.max)

\* a win after more attempts than the range has values: the floor applies
C13_Witness ==
    /\ status = "won"
    /\ hintTypesUsed = {}
    /\ ~timerChallenge
    /\ attempts > range.max + 1
    /\ score = 0

\* a win that a round of the game can end in: a preset range and an
\* attempt count within the preset's limit
GameWin ==
    /\ status = "won"
    /\ range = DIFFICULTIES[difficulty]
    /\ attempts \in 1..MAX_ATTEMPTS[difficulty]

\* round(clamp(base * (1 + (timeLeft / totalTime) * 0.5), 0, 5000)) in
\* timer mode, round(clamp(base, 0, 5000)) otherwise
ExpectedFinal(base) ==
    LET capped(n) == IF n > 5000 THEN 5000 ELSE n
    IN  IF timerChallenge /\ totalTime > 0
        THEN capped((2 * base * (2 * totalTime + timeLeft) + 2 * totalTime)
                        \div (4 * totalTime))
        ELSE capped(base)

\* C14: with the same attempts, range and timer situation, a win with
\* N >= 1 distinct hint types scores strictly less than the win with no
\* hint; before the time bonus the two differ by min(baseScore, 100 * N).
C14_HintsLowerTheScore ==
    (GameWin /\ hintTypesUsed # {}) =>
        LET base == ExpectedBase(attempts, range.max)
            N == Cardinality(hintTypesUsed)
            cut == IF base <= 100 * N THEN base ELSE 100 * N
        IN  /\ score < ExpectedFinal(base)
            /\ score = ExpectedFinal(base - cut)
            /\ finalBaseOf(base, 0) - finalBaseOf(base, N) = cut

C14_Witness ==
    /\ GameWin
    /\ hintTypesUsed = HINT_TYPES
    /\ timerChallenge
    /\ timeLeft < totalTime
    /\ attempts = MAX_ATTEMPTS[difficulty]
    /\ score < ExpectedFinal(ExpectedBase(attempts, range.max))

\* baseScore - min(baseScore, 100 * N): the score of a win when no time
\* bonus applies
ExpectedWithoutBonus ==
    LET base == ExpectedBase(attempts, range.max)
        N == Cardinality(hintTypesUsed)
    IN  IF base <= 100 * N THEN 0 ELSE base - 100 * N

\* C15: a win in timer mode with time remaining scores at least what the
\* same win (same attempts, range and hint types) scores without the time
\* bonus, and at most 5000.
C15_TimeBonusNeverLowers ==
    (status = "won" /\ timerChallenge /\ timeLeft > 0) =>
        /\ score >= ExpectedWithoutBonus
        /\ score <= 5000

C15_Witness ==
    /\ status = "won"
    /\ timerChallenge
    /\ timeLeft > 0
    /\ hintTypesUsed # {}
    /\ score > ExpectedWithoutBonus

\* the win of the scenario: first guess on 1..20 after the parity and the
\* range hint, timer mode off
ScenarioWin ==
    /\ status = "won"
    /\ ~timerChallenge
    /\ range.max = 20
    /\ attempts = 1
    /\ hintTypesUsed = {"parity", "range"}

\* C16: with timer mode off the final score of a win is
\* baseScore - min(baseScore, 100 * number of distinct hint types used), for
\* every attempt count, preset range and hint set; hint types
\* {parity, range}, 1 attempt and rangeMax 20 give base 1000, penalty 200
\* and final score 800.
C16_FinalScoreWithoutTimer ==
    /\ (status = "won" /\ ~timerChallenge /\ range = DIFFICULTIES[difficulty])
          => score = computeScore(attempts, range.max)
                       - Min2(computeScore(attempts, range.max),
                              HINT_PENALTY * Cardinality(hintTypesUsed))
    /\ ScenarioWin =>
          /\ computeScore(attempts, range.max) = 1000
          /\ Min2(1000, HINT_PENALTY * Cardinality(hintTypesUsed)) = 200
          /\ score = 800

C16_Witness == ScenarioWin /\ score = 800

\* a hint of a type that this round has used already is requested again
RepeatedHintRequest ==
    /\ status = "playing"
    /\ hintTypesUsed # {}
    /\ UNCHANGED <<attempts, round, timeLeft, status>>
    /\ \E k \in hintTypesUsed :
           \E input \in ProximityInputs : handleHint(k, input)

\* C17: within a round each hint type enters hintTypesUsed at most once and
\* stays until the next round, which starts with none; requesting a used
\* type again changes neither the set nor the penalty; the penalty in the
\* score of a win is 100 times the number of distinct types requested in the
\* round, at most 400.
C17_HintTypesCountOnce ==
    [][/\ round' = round =>
              /\ hintTypesUsed \subseteq hintTypesUsed'
              /\ Cardinality(hintTypesUsed' \ hintTypesUsed) <= 1
       /\ NewRoundStep => hintTypesUsed' = {}
       /\ RepeatedHintRequest => UNCHANGED <<hintTypesUsed, score>>
       /\ CorrectSubmit =>
              /\ 100 * Cardinality(hintTypesUsed) <= 400
              /\ score' = ExpectedFinal(ExpectedBase(attempts + 1, range.max)
                                          - 100 * Cardinality(hintTypesUsed))]_vars

C17_Witness ==
    /\ status = "won"
    /\ hintTypesUsed = HINT_TYPES
    /\ lastHint # NoMsg
    /\ score = ExpectedBase(attempts, range.max) - 400

\* the step in which achievement k goes from locked to unlocked
Unlocks(k) == ~achievements[k] /\ achievements'[k]

\* the step in which the round becomes won
WinStep == status # "won" /\ status' = "won"

\* C18: firstTryWin is unlocked by a step exactly when it is still locked and
\* the step is a win with one attempt used; noHintsWin exactly when it is
\* still locked and the step is a win of a round in which no hint type was
\* used.  Both may unlock in one win; a win with two attempts does not
\* unlock firstTryWin; timeouts, out-of-attempts and new rounds unlock
\* nothing.
C18_AchievementsUnlockOnQualifyingWin ==
    [][/\ Unlocks("firstTryWin") <=>
              (~achievements.firstTryWin /\ WinStep /\ attempts' = 1)
       /\ Unlocks("noHintsWin") <=>
              (~achievements.noHintsWin /\ WinStep /\ hintTypesUsed' = {})]_vars

AchievementKeys == {"firstTryWin", "noHintsWin"}

\* record a, then a2: an unlocked key stays unlocked, and its timestamp
\* changes only when the key goes from locked to unlocked, to the time t
UnlockedOnce(a, a2, t) ==
    \A k \in AchievementKeys :
        /\ a[k] => a2[k]
        /\ a2.unlockedAt[k] # a.unlockedAt[k] => (~a[k] /\ a2[k])
        /\ (~a[k] /\ a2[k]) => a2.unlockedAt[k] = t

LevelPrefixes ==
    {{"Beginner"}, {"Beginner", "Intermediate"},
     {"Beginner", "Intermediate", "Expert"}}

SuccessorOf(l) ==
    CASE l = "Beginner" -> {"Intermediate"}
      [] l = "Intermediate" -> {"Expert"}
      [] OTHER -> {}

\* the step that processes a win: the status is set to won and the round is
\* counted
WinProcessed == status' = "won" /\ totalGames' = totalGames + 1

\* the level in which the win being processed was earned
WinLevel == IF pending # <<>> THEN Head(pending).level ELSE level

\* C20: from the default progress the unlocked set is always a prefix of
\* Beginner, Intermediate, Expert that contains Beginner.  It changes only
\* in a step that processes a win, which adds exactly the successor of the
\* level of that win (nothing for Expert or when it is unlocked already);
\* timeouts, out-of-attempts, resets and level or difficulty switches never
\* change it.
C20_LevelsUnlockInOrder ==
    /\ [](unlockedLevels \in LevelPrefixes /\ storedLevels \in LevelPrefixes)
    /\ [][IF WinProcessed
          THEN /\ unlockedLevels' = unlockedLevels \cup SuccessorOf(WinLevel)
               /\ storedLevels' = storedLevels \cup SuccessorOf(WinLevel)
          ELSE UNCHANGED <<unlockedLevels, storedLevels>>]_vars

C20_Witness ==
    /\ status = "won"
    /\ level = "Intermediate"
    /\ unlockedLevels = {"Beginner", "Intermediate", "Expert"}
    /\ storedLevels = unlockedLevels

LevelPreset == [Beginner |-> "easy", Intermediate |-> "medium", Expert |-> "hard"]

\* C22: switching to an unlocked level starts a fresh playing round (no
\* attempts, empty history, no hints) under the level's preset difficulty:
\* easy for Beginner, medium for Intermediate, hard for Expert.  A later
\* difficulty change, which takes the round off the level's preset, replaces
\* difficulty, range, maximum attempts and timer duration and leaves the
\* active level and the unlocked set as they are.
C22_LevelSwitchAppliesPreset ==
    [][/\ level' # level =>
              /\ level' \in unlockedLevels
              /\ FreshRound(LevelPreset[level'])
              /\ UNCHANGED unlockedLevels
       /\ (NewRoundStep /\ difficulty' # LevelPreset[level']) =>
              /\ FreshRound(difficulty')
              /\ UNCHANGED <<level, unlockedLevels>>]_vars

\* Intermediate was switched to, and the difficulty then set to hard
C22_Witness ==
    /\ level = "Intermediate"
    /\ difficulty = "hard"
    /\ range = PresetRange["hard"]
    /\ status = "playing"
    /\ attempts = 0

\* C23: after any sequence of addResult calls the stored log has at most 50
\* entries, the entry added last is first, the entries are in reverse order
\* of insertion, and an add to a full log drops exactly the oldest entry.
C23_LogIsCappedNewestFirst ==
    /\ [](/\ Len(leaderboard) <= 50
          /\ \A i \in 1..(Len(leaderboard) - 1) :
                 leaderboard[i].timestamp > leaderboard[i + 1].timestamp)
    /\ [][now' = now + 1 =>
              /\ leaderboard'[1].timestamp = now
              /\ Len(leaderboard') = IF Len(leaderboard) < 50
                                     THEN Len(leaderboard) + 1 ELSE 50
              /\ \A i \in 2..Len(leaderboard') :
                     leaderboard'[i] = leaderboard[i - 1]]_vars

\* the log is full and its oldest entries have been dropped
C23_Witness ==
    /\ Len(leaderboard) = 50
    /\ leaderboard[1].timestamp = 52
    /\ leaderboard[50].timestamp = 3

\* the limits the views are read with (10 is the default)
ReadLimits == {1, 2, 10}

\* a goes before b, or may stand for it, under the documented keys
ByScoreOrder(a, b) ==
    \/ a.score > b.score
    \/ a.score = b.score /\ a.attempts < b.attempts
    \/ a.score = b.score /\ a.attempts = b.attempts /\ a.timestamp <= b.timestamp

ByAttemptsOrder(a, b) ==
    \/ a.attempts < b.attempts
    \/ a.attempts = b.attempts /\ a.score > b.score
    \/ a.attempts = b.attempts /\ a.score = b.score /\ a.timestamp <= b.timestamp

Occurrences(list, e) == Cardinality({i \in 1..Len(list) : list[i] = e})

IsPermutationOf(list, stored) ==
    /\ Len(list) = Len(stored)
    /\ \A i \in 1..Len(stored) :
           Occurrences(list, stored[i]) = Occurrences(stored, stored[i])

IsPrefixOf(part, list, limit) ==
    /\ Len(part) = (IF limit <= Len(list) THEN limit ELSE Len(list))
    /\ \A i \in 1..Len(part) : part[i] = list[i]

\* C24: each read projection returns the first `limit` entries of a
\* permutation of the stored log that is sorted by the documented keys:
\* getHighScores by score descending, attempts ascending, timestamp
\* ascending; getBestAttempts by attempts ascending, score descending,
\* timestamp ascending.  Both are functions of the stored log, which they
\* leave as it is.
C24_ViewsAreSortedPrefixes ==
    /\ IsPermutationOf(getHighScores(leaderboard, Len(leaderboard)), leaderboard)
    /\ IsPermutationOf(getBestAttempts(leaderboard, Len(leaderboard)), leaderboard)
    /\ \A i \in 1..(Len(leaderboard) - 1) :
           /\ ByScoreOrder(getHighScores(leaderboard, Len(leaderboard))[i],
                           getHighScores(leaderboard, Len(leaderboard))[i + 1])
           /\ ByAttemptsOrder(getBestAttempts(leaderboard, Len(leaderboard))[i],
                              getBestAttempts(leaderboard, Len(leaderboard))[i + 1])
    /\ \A limit \in ReadLimits :
           /\ IsPrefixOf(getHighScores(leaderboard, limit),
                         getHighScores(leaderboard, Len(leaderboard)), limit)
           /\ IsPrefixOf(getBestAttempts(leaderboard, limit),
                         getBestAttempts(leaderboard, Len(leaderboard)), limit)

\* three wins, two of them with the same score and different attempts, the
\* one with more attempts added first: both views reorder the log
C24_Witness ==
    /\ Len(leaderboard) = 3
    /\ leaderboard[3].score = leaderboard[2].score
    /\ leaderboard[3].attempts > leaderboard[2].attempts
    /\ leaderboard[1].score > leaderboard[2].score
    /\ getHighScores(leaderboard, 2) = <<leaderboard[1], leaderboard[2]>>
    /\ getBestAttempts(leaderboard, 2)[1].attempts = 1

ElapsedTimes ==
    {leaderboard[i].totalTime - leaderboard[i].timeRemaining :
        i \in {j \in 1..Len(leaderboard) :
                  leaderboard[j].totalTime # -1 /\ leaderboard[j].timeRemaining # -1}}

LogScores == {leaderboard[i].score : i \in 1..Len(leaderboard)}

\* C26: fastestWinSeconds is the minimum of totalTime - timeRemaining over
\* the log entries that carry both fields, and null when there is none;
\* highestScore is the maximum score in the log, 0 for the empty log.
C26_FastestWinAndHighestScore ==
    /\ IF ElapsedTimes = {}
       THEN refreshStatistics(totalGames, leaderboard).fastestWinSeconds = NoSeconds
       ELSE /\ refreshStatistics(totalGames, leaderboard).fastestWinSeconds
                   \in ElapsedTimes
            /\ \A x \in ElapsedTimes :
                   refreshStatistics(totalGames, leaderboard).fastestWinSeconds <= x
    /\ IF leaderboard = <<>>
       THEN refreshStatistics(totalGames, leaderboard).highestScore = 0
       ELSE /\ refreshStatistics(totalGames, leaderboard).highestScore \in LogScores
            /\ \A x \in LogScores :
                   refreshStatistics(totalGames, leaderboard).highestScore >= x

\* a slower timed win was logged before and after the fastest one
C26_Witness ==
    /\ Len(leaderboard) = 3
    /\ leaderboard[2].timerChallenge
    /\ leaderboard[1].timerChallenge
    /\ leaderboard[3].timerChallenge
    /\ Cardinality(ElapsedTimes) = 2
    /\ refreshStatistics(totalGames, leaderboard).fastestWinSeconds
           = leaderboard[2].totalTime - leaderboard[2].timeRemaining
    /\ leaderboard[1].totalTime - leaderboard[1].timeRemaining
           > leaderboard[2].totalTime - leaderboard[2].timeRemaining

\* min(max(5, floor(span / 3)), max(3, span - 2))
ExpectedHintWidth(span) ==
    LET lo == IF span \div 3 >= 5 THEN span \div 3 ELSE 5
        hi == IF span - 2 >= 3 THEN span - 2 ELSE 3
    IN  IF lo <= hi THEN lo ELSE hi

\* C27: for every preset range and every secret in it the range hint is an
\* interval [start, end] with min <= start <= secret <= end <= max that is
\* not the whole range and whose width end - start + 1 is
\* min(max(5, floor(span / 3)), max(3, span - 2)), span = max - min + 1.
C27_RangeHintWindow ==
    lastHint.key = "hint_range_text" =>
        /\ range.min <= lastHint.a
        /\ lastHint.a <= secret
        /\ secret <= lastHint.b
        /\ lastHint.b <= range.max
        /\ ~(lastHint.a = range.min /\ lastHint.b = range.max)
        /\ lastHint.b - lastHint.a + 1
               = ExpectedHintWidth(range.max - range.min + 1)

\* the hint for the largest secret of 1..100: the window is shifted back
C27_Witness ==
    /\ difficulty = "hard"
    /\ secret = 100
    /\ "range" \in hintTypesUsed
    /\ lastHint = Msg("hint_range_text", 68, 100, 0)

\* C28: storage writes that fail silently do not influence the session: the
\* round, the unlocked levels and the achievement flags and timestamps in
\* memory evolve as they do when the writes succeed, so what was unlocked in
\* memory earlier in the session stays unlocked, with its timestamp.
C28_MemoryKeepsUnlocksWhenWritesFail ==
    [][/\ \A k \in AchievementKeys :
              achievements[k] =>
                  /\ achievements'[k]
                  /\ achievements'.unlockedAt[k] = achievements.unlockedAt[k]
       /\ unlockedLevels \subseteq unlockedLevels']_vars

\* C29: for every content of the stored level-progress key (missing,
\* unparsable, wrong shape, any list of identifiers) loading the progress
\* returns a non-empty set of known levels in which Beginner is unlocked.
C29_LoadedProgressHasBeginner ==
    /\ readLevelProgress(storedLevels) # {}
    /\ readLevelProgress(storedLevels)
           \subseteq {"Beginner", "Intermediate", "Expert"}
    /\ "Beginner" \in readLevelProgress(storedLevels)
    /\ "Beginner" \in unlockedLevels

\* C30: the secret is always an integer within [min, max] of the current
\* range, and it changes only in a new-round action (reset, play again,
\* difficulty change, level change): guesses, repeats, invalid inputs,
\* hints, timer ticks and timer-mode toggles leave it as it is.
C30_SecretInRangeAndStable ==
    /\ [](secret \in range.min..range.max)
    /\ [][secret' # secret => NewRoundStep]_vars

\* a later round on another range, with guesses made and the timer used
C30_Witness ==
    /\ round > 1
    /\ range.max > 20
    /\ secret > 20
    /\ attempts > 1
    /\ timeLeft < totalTime

\* C31: within a round the history only grows by appending; entry k has
\* index k, no two entries have the same value, every value lies within
\* [min, max], and each entry's result is too low, too high or correct
\* exactly as its value is below, above or equal to the secret.
C31_HistoryIsAppendOnly ==
    /\ [](\A k \in 1..Len(history) :
              /\ history[k].index = k
              /\ history[k].value \in range.min..range.max
              /\ history[k].result = "too low" <=> history[k].value < secret
              /\ history[k].result = "too high" <=> history[k].value > secret
              /\ history[k].result = "correct" <=> history[k].value = secret
              /\ \A j \in 1..Len(history) :
                     history[j].value = history[k].value => j = k)
    /\ [][(round' = round /\ history' # history) =>
              /\ Len(history') = Len(history) + 1
              /\ SubSeq(history', 1, Len(history)) = history]_vars

\* a round with guesses on both sides of the secret, then the secret
C31_Witness ==
    /\ Len(history) >= 3
    /\ history[Len(history)].result = "correct"
    /\ \E k \in 1..Len(history) : history[k].result = "too low"
    /\ \E k \in 1..Len(history) : history[k].result = "too high"

\* one firing of the countdown: the remaining time goes down within a round
\* and the timer mode is not switched
TickStep ==
    /\ timeLeft' < timeLeft
    /\ round' = round
    /\ timerChallenge' = timerChallenge

\* C32: with timer mode on and fair ticking, every round in play eventually
\* leaves status playing or is replaced by a new round (or timer mode is
\* switched off); each tick lowers the remaining time by exactly 1, a round
\* starts with the preset duration of its difficulty (30, 45, 60) and turns to
\* timeout exactly on the tick from 1 to 0, that is after `total` ticks and
\* not earlier when the player does nothing.
C32_CountdownEndsTheRound ==
    /\ \A r \in 1..LongRounds :
           (round = r /\ timerChallenge /\ status = "playing")
               ~> (round # r \/ status # "playing" \/ ~timerChallenge)
    /\ [][/\ TickStep =>
              /\ timeLeft' = timeLeft - 1
              /\ status' = "timeout" <=> timeLeft' = 0
          /\ (status' = "timeout" /\ status # "timeout") =>
              /\ TickStep
              /\ timeLeft = 1
          /\ (NewRoundStep /\ timerChallenge') =>
              /\ timeLeft' = PresetSeconds[difficulty']
              /\ status' = "playing"]_vars

\* a round on hard that nobody played has timed out after its 60 seconds
C32_Witness ==
    /\ status = "timeout"
    /\ timerChallenge
    /\ difficulty = "hard"
    /\ totalTime = 60
    /\ timeLeft = 0
    /\ attempts = 0
    /\ hintTypesUsed = {}
    /\ pending = <<>>

\* a leaderboard entry is put in front of the log
EntryWritten == Len(leaderboard') = Len(leaderboard) + 1

\* C33: 0 <= remaining <= total, and total is the preset duration of the
\* current difficulty; within a round the remaining time goes down only while
\* the status is playing and timer mode is on; an entry written with timer
\* mode on has timerChallenge = true and 0 <= timeRemaining <= totalTime, an
\* entry written with timer mode off has timerChallenge = false and both
\* fields null.
C33_CountdownBoundsAndTimerMetadata ==
    /\ [](/\ timeLeft \in 0..totalTime
          /\ totalTime = PresetSeconds[difficulty]
          /\ \A i \in 1..Len(leaderboard) :
                 IF leaderboard[i].timerChallenge
                 THEN /\ leaderboard[i].timeRemaining \in 0..leaderboard[i].totalTime
                      /\ leaderboard[i].totalTime
                             = PresetSeconds[leaderboard[i].difficulty]
                 ELSE /\ leaderboard[i].timeRemaining = -1
                      /\ leaderboard[i].totalTime = -1)
    /\ [][/\ (timeLeft' < timeLeft /\ round' = round) =>
              /\ status = "playing"
              /\ timerChallenge
          /\ EntryWritten =>
              /\ leaderboard'[1].timerChallenge = timerChallenge
              /\ timerChallenge => leaderboard'[1].timeRemaining = timeLeft]_vars

\* the log holds a win made with timer mode on after the countdown had ticked
C33_Witness ==
    /\ status = "won"
    /\ timeLeft < totalTime
    /\ \E i \in 1..Len(leaderboard) :
           /\ leaderboard[i].timerChallenge
           /\ leaderboard[i].timeRemaining > 0
           /\ leaderboard[i].timeRemaining < leaderboard[i].totalTime

\* C34: the history has as many entries as attempts were used, and
\* 0 <= attemptsUsed <= the maximum of the current difficulty (6, 8, 10).
C34_AttemptsMatchHistoryWithinMaximum ==
    /\ Len(history) = attempts
    /\ attempts \in 0..PresetMaxAttempts[difficulty]

\* positions of the history entries whose result is correct
CorrectEntries == {k \in 1..Len(history) : history[k].result = "correct"}

\* C35: the status is won exactly when the history holds a correct entry,
\* which is then the last entry, the only correct one, and has the secret as
\* its value; out_of_attempts implies attemptsUsed = maxAttempts and no
\* correct entry; playing implies attemptsUsed < maxAttempts and no correct
\* entry.
C35_StatusMatchesHistory ==
    /\ status = "won" <=> CorrectEntries # {}
    /\ CorrectEntries # {} =>
           /\ CorrectEntries = {Len(history)}
           /\ history[Len(history)].value = secret
    /\ status = "out_of_attempts" =>
           /\ attempts = PresetMaxAttempts[difficulty]
           /\ CorrectEntries = {}
    /\ status = "playing" =>
           /\ attempts < PresetMaxAttempts[difficulty]
           /\ CorrectEntries = {}

\* a hint handler has run in a round in play: within the round the hint set
\* or the text of the last hint changes
HintStep ==
    /\ round' = round
    /\ \/ hintTypesUsed' # hintTypesUsed
       \/ lastHint' # lastHint

\* C36: a hint request of any type in a round in play changes only the hint
\* set and the feedback text (the hint is put in the feedback line and in the
\* last-hint line): secret, attemptsUsed, history, status, remaining time,
\* leaderboard log, lifetime counter, achievements and unlocked levels are
\* unchanged.
C36_HintChangesOnlyHintSetAndText ==
    [][HintStep =>
           /\ status = "playing"
           /\ hintTypesUsed \subseteq hintTypesUsed'
           /\ feedback' = lastHint'
           /\ UNCHANGED <<secret, attempts, history, status, timeLeft,
                          totalTime, leaderboard, totalGames, achievements,
                          storedAchievements, unlockedLevels, storedLevels,
                          level, difficulty, range, score, timerChallenge,
                          intervals>>]_vars

\* every hint type has been requested in a round that is still in play after
\* a wrong guess
C36_Witness ==
    /\ status = "playing"
    /\ hintTypesUsed = HINT_TYPES
    /\ attempts > 0
    /\ lastHint # NoMsg
    /\ feedback = lastHint

GuessFirstMsg == Msg("hint_proximity_need_guess", 0, 0, 0)

\* the make-a-guess-first message is returned by a hint request
GuessFirstStep ==
    /\ round' = round
    /\ lastHint' = GuessFirstMsg
    /\ lastHint # GuessFirstMsg

\* C37: the proximity hint requested in a round in play with attemptsUsed = 0
\* returns only the make-a-guess-first message and marks the proximity type
\* as used; the type stays used for the rest of the round, counts 100 points
\* in the hint penalty of the round's win and keeps that win from unlocking
\* noHintsWin.
C37_ProximityBeforeFirstGuessCounts ==
    [][/\ GuessFirstStep =>
              /\ status = "playing"
              /\ attempts = 0
              /\ attempts' = 0
              /\ feedback' = GuessFirstMsg
              /\ "proximity" \in hintTypesUsed'
       /\ (round' = round /\ "proximity" \in hintTypesUsed) =>
              "proximity" \in hintTypesUsed'
       /\ (CorrectSubmit /\ "proximity" \in hintTypesUsed) =>
              score' = ExpectedFinal(
                           ExpectedBase(attempts + 1, range.max) - 100
                           - 100 * Cardinality(hintTypesUsed \ {"proximity"}))
       /\ (WinStep /\ "proximity" \in hintTypesUsed') =>
              ~Unlocks("noHintsWin")]_vars

\* a first-guess win after the proximity hint was requested before any
\* guess: 100 points are taken off and noHintsWin stays locked
C37_Witness ==
    /\ status = "won"
    /\ attempts = 1
    /\ hintTypesUsed = {"proximity"}
    /\ lastHint = GuessFirstMsg
    /\ score = ExpectedBase(1, range.max) - 100
    /\ ~achievements.noHintsWin
    /\ achievements.firstTryWin

AcceptedOutcomes == {"correct", "too low", "too high"}

\* the values a submission is tried with: those of this round's history, the
\* ends of the range, the value after the lower end, and the secret
ProbeValues == HistoryValues \cup {range.min, range.min + 1, range.max, secret}

\* C38: repeat-guess detection looks at the current round only.  A new round
\* starts with an empty history and no repeat warning, whatever the history
\* of the round before was; in a round in play a value of the range is taken
\* as a new guess exactly when it is not in this round's history, and a guess
\* that is taken uses an attempt and is appended to the history.
C38_RepeatDetectionIsPerRound ==
    /\ [](status = "playing" =>
              \A v \in ProbeValues :
                  submitOutcome(String(v)) \in AcceptedOutcomes
                      <=> v \notin HistoryValues)
    /\ [][/\ NewRoundStep =>
              /\ history' = <<>>
              /\ repeatWarning' = NoMsg
              /\ attempts' = 0
          /\ (round' = round /\ Len(history') = Len(history) + 1) =>
              /\ attempts' = attempts + 1
              /\ history'[Len(history')].value \notin HistoryValues]_vars

\* the long session, second round in play: the first round was won on its
\* second guess, so its history was 1 and the secret, or 2 and the secret 1;
\* the value 1 is in the history of the second round again
C38_Witness ==
    /\ plan = LongPlan
    /\ round = 2
    /\ status = "playing"
    /\ Len(leaderboard) = 1
    /\ leaderboard[1].attempts = 2
    /\ attempts = Len(history)
    /\ \E k \in 1..Len(history) : history[k].value = 1

====
